---- MODULE Spec2Model ----
(***************************************************************************)
(* Model of the network incident engine (NetworkIncidentService) and of    *)
(* the notification dispatcher (NotificationService) of the fleet          *)
(* monitoring dashboard.                                                   *)
(*                                                                         *)
(* Timestamps are milliseconds, as Date.getTime() returns them.  Devices   *)
(* (IMEIs) are small naturals.  The grouping pass of                       *)
(* groupEventsIntoIncidents is modelled one forEach iteration per step,    *)
(* over an event list that extractNetworkEvents has sorted by timestamp.   *)
(***************************************************************************)
EXTENDS Integers, Sequences, FiniteSets, TLC

VARIABLES
    incidents,        \* const incidents: NetworkIncident[] of the grouping pass
    deviceOutages,    \* const deviceOutages: Map<string, Date>
    currentIncident,  \* let currentIncident: index into incidents, 0 for null
    clock,            \* timestamp of the event processed last (the list is sorted)
    pc,               \* "grouping" inside events.forEach, "done" once returned
    metrics,          \* the metrics analyzeNetworkEvents returns, once returned
    events,           \* the events list handed to the status queries
    networkStatus,    \* what getCurrentNetworkStatus returned, once called
    deviceStatus,     \* what getDeviceRecoveryStatus returned per device
    feed,             \* what the scripted event sources have emitted so far
    notifications,    \* NotificationService.notifications, newest first
    listeners,        \* NotificationService.listeners, in subscription order
    isEnabled,        \* NotificationService.isEnabled
    now,              \* the wall clock read by Date.now() / new Date()
    ops,              \* the addNotification / acknowledgeNotification calls made
    last,             \* the mutating call made last and what its listeners observed
    ignitionLogs,     \* the ignitionLogs handed to AnalyticsService
    exceptionLogs,    \* the exceptionLogs handed to AnalyticsService
    health,           \* what calculateDeviceHealthScore returned, once called
    anomalies,        \* what detectAnomalies returned, once called
    serverHealth      \* what calculateServerHealth returned, once called

statusVars == <<events, networkStatus, deviceStatus>>

incidentVars ==
    <<incidents, deviceOutages, currentIncident, clock, pc, feed, metrics,
      events, networkStatus, deviceStatus>>

notificationVars ==
    <<notifications, listeners, isEnabled, now, ops, last>>

analyticsVars ==
    <<ignitionLogs, exceptionLogs, health, anomalies, serverHealth>>

vars == <<incidents, deviceOutages, currentIncident, clock, pc, feed,
          metrics, events, networkStatus, deviceStatus,
          notifications, listeners, isEnabled, now, ops, last,
          ignitionLogs, exceptionLogs, health, anomalies, serverHealth>>

---------------------------------------------------------------------------
(* Bounds of the model *)

NumDevices == 2
MaxEvents == 4
MaxFleet == 11
ScenarioMax == 6

(* Granularity of the timestamps drawn for the events: 30 seconds. *)
TimeStep == 30 * 1000

Devices == 1..NumDevices

(* Gaps between consecutive events of the sorted list, in TimeSteps:      *)
(* same instant, half a minute, exactly the window, beyond the window.    *)
Deltas == {0, 1, 10, 11}

---------------------------------------------------------------------------
(* Program constants *)

INCIDENT_WINDOW == 5 * 60 * 1000

MS_PER_MINUTE == 1000 * 60

getTotalDeviceCount == 10

(* An optional field that is not set (endTime?, duration?). *)
Undefined == -1

---------------------------------------------------------------------------
(* Helpers *)

(* Array.prototype.includes *)
Includes(arr, x) == \E i \in DOMAIN arr : arr[i] = x

Elems(arr) == {arr[i] : i \in DOMAIN arr}

(* Math.round(a / b) for b > 0: the floor of a / b, and one more from a    *)
(* remainder of half of b on (halves round up).                            *)
Round(a, b) == (a \div b) + (IF 2 * (a % b) >= b THEN 1 ELSE 0)

(* The devices with an entry in the deviceOutages map. *)
NoOutage == [d \in {} |-> 0]

MapSet(m, k, v) == [x \in (DOMAIN m) \cup {k} |-> IF x = k THEN v ELSE m[x]]

MapDelete(m, k) == [x \in (DOMAIN m) \ {k} |-> m[x]]

---------------------------------------------------------------------------
(* groupEventsIntoIncidents *)

(* The incident literal of a new incident. *)
NewIncident(event) ==
    [ startTime        |-> event.timestamp,
      endTime          |-> Undefined,
      duration         |-> Undefined,
      status           |-> "ongoing",
      affectedDevices  |-> <<event.deviceImei>>,
      recoveredDevices |-> <<>>,
      severity         |-> "critical",
      impactLevel      |-> 0,
      recoveryPattern  |-> "simultaneous" ]

StartsNewIncidentFromLatest(incs, cur, event) ==
    \/ cur = 0
    \/ event.timestamp - clock > INCIDENT_WINDOW

(* The condition under which an outage starts a new incident. *)
StartsNewIncident(incs, cur, event) ==
    \/ cur = 0
    \/ event.timestamp - incs[cur].startTime > INCIDENT_WINDOW

AddToIncidentReopening(inc, imei) ==
    IF ~Includes(inc.affectedDevices, imei)
    THEN [inc EXCEPT !.affectedDevices = Append(@, imei),
                     !.status = "ongoing"]
    ELSE inc

AddToIncidentAgain(inc, imei) ==
    [inc EXCEPT !.affectedDevices = Append(@, imei)]

(* "Add to existing incident": push the device unless already included. *)
AddToIncident(inc, imei) ==
    IF ~Includes(inc.affectedDevices, imei)
    THEN [inc EXCEPT !.affectedDevices = Append(@, imei)]
    ELSE inc

FindIncidentAnyOngoing(incs, imei) ==
    LET hits == {i \in DOMAIN incs : incs[i].status = "ongoing"}
    IN  IF hits = {} THEN 0 ELSE CHOOSE i \in hits : \A j \in hits : i <= j

(* incidents.find(inc => inc.affectedDevices.includes(imei) &&             *)
(*                       inc.status === 'ongoing'): first match, 0 if none *)
FindIncident(incs, imei) ==
    LET hits == {i \in DOMAIN incs :
                    /\ Includes(incs[i].affectedDevices, imei)
                    /\ incs[i].status = "ongoing"}
    IN  IF hits = {} THEN 0 ELSE CHOOSE i \in hits : \A j \in hits : i <= j

determineRecoveryPatternGradualFirst(inc) ==
    IF Len(inc.recoveredDevices) = 0 THEN "simultaneous"
    ELSE IF 5 * Len(inc.recoveredDevices) > 4 * Len(inc.affectedDevices)
         THEN "gradual"
    ELSE IF Len(inc.recoveredDevices) = Len(inc.affectedDevices)
         THEN "simultaneous"
    ELSE "partial"

(* recoveryRate = recovered.length / affected.length; === 1 and > 0.8 are  *)
(* compared on the integer lengths (r/a > 0.8 iff 5r > 4a).                *)
determineRecoveryPattern(inc) ==
    IF Len(inc.recoveredDevices) = 0 THEN "simultaneous"
    ELSE IF Len(inc.recoveredDevices) = Len(inc.affectedDevices)
         THEN "simultaneous"
    ELSE IF 5 * Len(inc.recoveredDevices) > 4 * Len(inc.affectedDevices)
         THEN "gradual"
    ELSE "partial"

(* The body of `if (incident)` of a recovery event: mark the device        *)
(* recovered, resolve when the lengths agree, update the pattern.          *)
RecoverDevice(inc, event) ==
    LET marked ==
            IF ~Includes(inc.recoveredDevices, event.deviceImei)
            THEN [inc EXCEPT !.recoveredDevices = Append(@, event.deviceImei)]
            ELSE inc
        closed ==
            IF Len(marked.recoveredDevices) = Len(marked.affectedDevices)
            THEN [marked EXCEPT
                    !.status = "resolved",
                    !.endTime = event.timestamp,
                    !.duration = Round(event.timestamp - marked.startTime,
                                       MS_PER_MINUTE)]
            ELSE marked
    IN  [closed EXCEPT !.recoveryPattern = determineRecoveryPattern(closed)]

(* impactLevel = Math.round((affected.length / total) * 100) *)
ImpactLevel(inc) == Round(Len(inc.affectedDevices) * 100, getTotalDeviceCount)

DurationOverOrUnset(inc, n) == inc.duration = Undefined \/ inc.duration > n

(* `incident.duration && incident.duration > n`: false when duration is    *)
(* undefined or 0.                                                         *)
DurationOver(inc, n) == inc.duration # Undefined /\ inc.duration > n

SeverityOf(impact, inc) ==
    IF impact > 50 \/ DurationOver(inc, 30) THEN "critical"
    ELSE IF impact > 20 \/ DurationOver(inc, 10) THEN "high"
    ELSE "medium"

(* The finalising forEach: impact level, then severity. *)
FinalizeIncident(inc) ==
    [inc EXCEPT !.impactLevel = ImpactLevel(inc),
                !.severity = SeverityOf(ImpactLevel(inc), inc)]

---------------------------------------------------------------------------
(* calculateRecoveryMetrics *)

(* No metrics returned yet. *)
NoMetrics == [totalOutages |-> Undefined]

IsResolved(inc) == inc.status = "resolved"

(* `inc.duration || 0` *)
DurationOrZero(inc) == IF inc.duration = Undefined THEN 0 ELSE inc.duration

RECURSIVE SumSeq(_)
SumSeq(s) == IF s = <<>> THEN 0 ELSE Head(s) + SumSeq(Tail(s))

MaxSeq(s) == CHOOSE x \in Elems(s) : \A y \in Elems(s) : x >= y

MinSeq(s) == CHOOSE x \in Elems(s) : \A y \in Elems(s) : x <= y

(* The devices pushed by the nested forEach, in order, with repetitions. *)
RECURSIVE AffectedInOrder(_)
AffectedInOrder(incs) ==
    IF incs = <<>> THEN <<>>
    ELSE Head(incs).affectedDevices \o AffectedInOrder(Tail(incs))

(* The keys of a Map filled from `arr`, in insertion order. *)
RECURSIVE MapKeys(_)
MapKeys(arr) ==
    IF arr = <<>> THEN <<>>
    ELSE LET front == MapKeys(SubSeq(arr, 1, Len(arr) - 1))
         IN  IF Includes(front, arr[Len(arr)])
             THEN front
             ELSE Append(front, arr[Len(arr)])

(* deviceRecoveryCount.get(device) after the nested forEach. *)
DeviceRecoveryCount(incs, device) ==
    LET pushed == AffectedInOrder(incs)
    IN  Cardinality({k \in DOMAIN pushed : pushed[k] = device})

KeepMapOrder(devices, count) == devices

(* entries.sort((a, b) => b[1] - a[1]): by count, highest first; the sort  *)
(* is stable, so equal counts keep the order of the Map.                   *)
SortByCount(devices, count) ==
    LET before(i) == {j \in DOMAIN devices :
                        \/ count[devices[j]] > count[devices[i]]
                        \/ /\ count[devices[j]] = count[devices[i]]
                           /\ j < i}
    IN  [r \in DOMAIN devices |->
            devices[CHOOSE i \in DOMAIN devices : Cardinality(before(i)) = r - 1]]

(* slice(0, n) *)
SliceTo(arr, n) == SubSeq(arr, 1, IF Len(arr) < n THEN Len(arr) ELSE n)

frequentlyAffectedDevices(incs) ==
    LET keys == MapKeys(AffectedInOrder(incs))
        count == [d \in Elems(keys) |-> DeviceRecoveryCount(incs, d)]
        frequent == SelectSeq(keys, LAMBDA d : count[d] > 2)
    IN  SliceTo(SortByCount(frequent, count), 5)

(* The reduce over recoveryPattern. *)
recoveryPatterns(incs) ==
    [p \in {"simultaneous", "gradual", "partial"} |->
        Cardinality({i \in DOMAIN incs : incs[i].recoveryPattern = p})]

calculateRecoveryMetrics(incs) ==
    LET resolvedIncidents == SelectSeq(incs, IsResolved)
        durations == [i \in DOMAIN resolvedIncidents |->
                         DurationOrZero(resolvedIncidents[i])]
    IN  [ totalOutages |-> Len(incs),
          averageOutageDuration |->
              IF Len(durations) > 0
              THEN Round(SumSeq(durations), Len(durations)) ELSE 0,
          longestOutage |-> IF Len(durations) > 0 THEN MaxSeq(durations) ELSE 0,
          shortestOutage |-> IF Len(durations) > 0 THEN MinSeq(durations) ELSE 0,
          recoveryRate |->
              IF Len(resolvedIncidents) > 0
              THEN Round(Len(resolvedIncidents) * 100, Len(incs)) ELSE 0,
          frequentlyAffectedDevices |-> frequentlyAffectedDevices(incs),
          recoveryPatterns |-> recoveryPatterns(incs) ]

---------------------------------------------------------------------------
(* getCurrentNetworkStatus and getDeviceRecoveryStatus *)

(* No answer returned yet. *)
NoStatus == [status |-> "none"]

RECENT_WINDOW == 30 * 60 * 1000

(* NetworkIncidentService.incidents: reset by analyzeNetworkEvents and     *)
(* assigned nowhere else.                                                  *)
thisIncidents == <<>>

IsOutage(e) == e.eventType = "outage"

IsRecovery(e) == e.eventType = "recovery"

(* recentRecoveries.some(recovery => same device && later than outage) *)
RecoveredLater(recoveries, outage) ==
    \E k \in DOMAIN recoveries :
        /\ recoveries[k].deviceImei = outage.deviceImei
        /\ recoveries[k].timestamp > outage.timestamp

getCurrentNetworkStatus(evs, dateNow) ==
    LET recentEvents ==
            SelectSeq(evs, LAMBDA e : dateNow - e.timestamp < RECENT_WINDOW)
        recentOutages == SelectSeq(recentEvents, IsOutage)
        recentRecoveries == SelectSeq(recentEvents, IsRecovery)
        unrecovered ==
            SelectSeq(recentOutages,
                      LAMBDA o : ~RecoveredLater(recentRecoveries, o))
        affectedDevices ==
            [k \in DOMAIN unrecovered |-> unrecovered[k].deviceImei]
    IN  [ status |->
              IF Len(affectedDevices) > 0
              THEN IF Len(affectedDevices) > 3 THEN "outage" ELSE "degraded"
              ELSE "healthy",
          affectedDevices |-> affectedDevices,
          lastIncident |->
              IF thisIncidents = <<>> THEN Undefined
              ELSE thisIncidents[Len(thisIncidents)],
          dateNow |-> dateNow ]

(* recoveries.find(recovery => recovery.timestamp > outage.timestamp):     *)
(* the index of the first match, 0 if none.                                *)
CorrespondingRecovery(recoveries, outage) ==
    LET hits == {k \in DOMAIN recoveries :
                    recoveries[k].timestamp > outage.timestamp}
    IN  IF hits = {} THEN 0 ELSE CHOOSE k \in hits : \A j \in hits : k <= j

(* The recovery times pushed by outages.forEach, in milliseconds (the code *)
(* keeps them in minutes and multiplies by 60000 again).                   *)
RecoveryTimes(outages, recoveries) ==
    LET matched == SelectSeq(outages,
                       LAMBDA o : CorrespondingRecovery(recoveries, o) # 0)
    IN  [k \in DOMAIN matched |->
            recoveries[CorrespondingRecovery(recoveries, matched[k])].timestamp
              - matched[k].timestamp]

ReliabilityUnguarded(totalTime, totalOutageTime) ==
    IF totalTime > 0
    THEN Round((totalTime - totalOutageTime) * 100, totalTime)
    ELSE 0

(* Math.round(((totalTime - totalOutageTime) / totalTime) * 100), and 100  *)
(* when there is no time to divide by.                                     *)
Reliability(totalTime, totalOutageTime) ==
    IF totalTime > 0
    THEN Round((totalTime - totalOutageTime) * 100, totalTime)
    ELSE 100

getDeviceRecoveryStatus(imei, evs, dateNow) ==
    LET deviceEvents == SelectSeq(evs, LAMBDA e : e.deviceImei = imei)
        outages == SelectSeq(deviceEvents, IsOutage)
        recoveries == SelectSeq(deviceEvents, IsRecovery)
        lastType ==
            IF deviceEvents = <<>> THEN "none"
            ELSE deviceEvents[Len(deviceEvents)].eventType
        recoveryTimes == RecoveryTimes(outages, recoveries)
        totalTime ==
            IF Len(deviceEvents) > 0
            THEN dateNow - deviceEvents[1].timestamp ELSE 0
        totalOutageTime == SumSeq(recoveryTimes)
    IN  [ deviceImei |-> imei,
          lastSeen |->
              IF deviceEvents = <<>> THEN dateNow
              ELSE deviceEvents[Len(deviceEvents)].timestamp,
          status |->
              IF lastType = "outage" THEN "offline"
              ELSE IF lastType = "timeout" THEN "recovering"
              ELSE "online",
          lastOutage |->
              IF outages = <<>> THEN Undefined
              ELSE outages[Len(outages)].timestamp,
          outageCount |-> Len(outages),
          averageRecoveryTime |->
              IF Len(recoveryTimes) > 0
              THEN Round(SumSeq(recoveryTimes),
                         MS_PER_MINUTE * Len(recoveryTimes))
              ELSE 0,
          reliability |-> Reliability(totalTime, totalOutageTime) ]

---------------------------------------------------------------------------
(* One iteration of events.forEach for an outage event. *)
ProcessOutage(event) ==
    /\ deviceOutages' = MapSet(deviceOutages, event.deviceImei, event.timestamp)
    /\ IF StartsNewIncident(incidents, currentIncident, event)
       THEN /\ incidents' = Append(incidents, NewIncident(event))
            /\ currentIncident' = Len(incidents) + 1
       ELSE /\ incidents' =
                  [incidents EXCEPT ![currentIncident] =
                      AddToIncident(@, event.deviceImei)]
            /\ currentIncident' = currentIncident

HasRecordedOutageAlways(outages, imei) == TRUE

(* `if (outageTime)`: the device has an entry in deviceOutages. *)
HasRecordedOutage(outages, imei) == imei \in DOMAIN outages

(* One iteration of events.forEach for a recovery event. *)
ProcessRecovery(event) ==
    /\ currentIncident' = currentIncident
    /\ IF HasRecordedOutage(deviceOutages, event.deviceImei)
       THEN /\ LET i == FindIncident(incidents, event.deviceImei)
               IN  incidents' =
                     IF i # 0
                     THEN [incidents EXCEPT ![i] = RecoverDevice(@, event)]
                     ELSE incidents
            /\ deviceOutages' = MapDelete(deviceOutages, event.deviceImei)
       ELSE /\ incidents' = incidents
            /\ deviceOutages' = deviceOutages

(* One iteration of events.forEach for a timeout event: neither branch. *)
ProcessTimeout(event) ==
    /\ incidents' = incidents
    /\ deviceOutages' = deviceOutages
    /\ currentIncident' = currentIncident

ProcessEvent(event) ==
    /\ pc = "grouping"
    /\ clock' = event.timestamp
    /\ pc' = pc
    /\ metrics' = metrics
    /\ UNCHANGED <<notificationVars, analyticsVars>>
    /\ CASE event.eventType = "outage"   -> ProcessOutage(event)
         [] event.eventType = "recovery" -> ProcessRecovery(event)
         [] event.eventType = "timeout"  -> ProcessTimeout(event)

(* The number of events the model feeds to one pass. *)
Fed == feed.events

Event(imei, ts, type) ==
    [deviceImei |-> imei, timestamp |-> ts, eventType |-> type]

NextEvents(type) ==
    {Event(d, clock + dt * TimeStep, type) : d \in Devices, dt \in Deltas}

Count(f) == [f EXCEPT !.events = @ + 1]

OutageEvent ==
    /\ Fed < MaxEvents
    /\ \E e \in NextEvents("outage") : ProcessEvent(e)
    /\ feed' = Count(feed)
    /\ UNCHANGED statusVars

RecoveryEvent ==
    /\ Fed < MaxEvents
    /\ \E e \in NextEvents("recovery") : ProcessEvent(e)
    /\ feed' = Count(feed)
    /\ UNCHANGED statusVars

TimeoutEvent ==
    /\ Fed < MaxEvents
    /\ \E e \in NextEvents("timeout") : ProcessEvent(e)
    /\ feed' = Count(feed)
    /\ UNCHANGED statusVars

(* The end of the event list: finalise every incident, return from        *)
(* groupEventsIntoIncidents and compute the metrics over what it returned. *)
FinalizePass ==
    /\ pc = "grouping"
    /\ pc' = "done"
    /\ incidents' = [i \in DOMAIN incidents |-> FinalizeIncident(incidents[i])]
    /\ metrics' = calculateRecoveryMetrics(incidents')
    /\ UNCHANGED <<deviceOutages, currentIncident, clock, feed>>
    /\ UNCHANGED <<notificationVars, analyticsVars>>

(* analyzeNetworkEvents returns. *)
Finalize ==
    /\ FinalizePass
    /\ UNCHANGED statusVars

InitFeed ==
    [events |-> 0, outages |-> 0, recovered |-> {},
     firstOutage |-> Undefined, lastOutage |-> Undefined,
     waves |-> 0, next |-> 0, upto |-> 0]

(* The locals of groupEventsIntoIncidents at its entry. *)
InitIncidents ==
    /\ incidents = <<>>
    /\ deviceOutages = NoOutage
    /\ currentIncident = 0
    /\ clock = 0
    /\ pc = "grouping"
    /\ feed = InitFeed
    /\ metrics = NoMetrics
    /\ events = <<>>
    /\ networkStatus = NoStatus
    /\ deviceStatus = NoStatus

(* No call made yet. *)
NoCall ==
    [op |-> "none", id |-> 0, by |-> "none", content |-> "none", sizeBefore |-> 0,
     inserted |-> FALSE, invoked |-> <<>>, delivered |-> <<>>]

(* The NotificationService singleton as constructed. *)
InitNotifications ==
    /\ notifications = <<>>
    /\ listeners = <<>>
    /\ isEnabled = TRUE
    /\ now = 0
    /\ ops = 0
    /\ last = NoCall

(* No analytics asked for, over no logs. *)
NoHealth == [imei |-> "none"]

NoAnomalies == [returned |-> FALSE, list |-> <<>>]

NoServerHealth == [status |-> "none"]

InitAnalytics ==
    /\ ignitionLogs = <<>>
    /\ exceptionLogs = <<>>
    /\ health = NoHealth
    /\ anomalies = NoAnomalies
    /\ serverHealth = NoServerHealth

Init ==
    /\ InitIncidents
    /\ InitNotifications
    /\ InitAnalytics

Next ==
    \/ OutageEvent
    \/ RecoveryEvent
    \/ TimeoutEvent
    \/ Finalize

Spec == Init /\ [][Next]_vars

---------------------------------------------------------------------------
(* A burst of outages: device 1, 2, 3, ... each report one outage, in     *)
(* that order, at the same instant as the previous one or 2.5 minutes     *)
(* later; the list may end after any of them.                             *)

BurstDeltas == {0, 5}

BurstOutage ==
    /\ feed.outages < MaxFleet
    /\ \E dt \in BurstDeltas :
          ProcessEvent(Event(feed.outages + 1, clock + dt * TimeStep, "outage"))
    /\ feed' = [feed EXCEPT !.events = @ + 1, !.outages = @ + 1]
    /\ UNCHANGED statusVars

NextBurst ==
    \/ BurstOutage
    \/ Finalize

SpecBurst == Init /\ [][NextBurst]_vars

---------------------------------------------------------------------------
(* The outage-then-recovery scenario: devices 1..n (n <= ScenarioMax)     *)
(* each report one outage, in device order, and then the devices that     *)
(* went down report one recovery each, the lowest or the highest device   *)
(* not yet recovered first; there are no other events.                    *)

ScenarioOutageDeltas == {0, 3}

ScenarioRecoveryDeltas == {0, 1, 4}

(* The first recovery may also come 10.5 or 31 minutes after the last     *)
(* outage.                                                                *)
ScenarioFirstRecoveryDeltas == {0, 1, 4, 21, 62}

Unrecovered == (1..feed.outages) \ feed.recovered

Lowest(S) == CHOOSE x \in S : \A y \in S : x <= y

Highest(S) == CHOOSE x \in S : \A y \in S : x >= y

ScenarioOutage ==
    /\ feed.outages < ScenarioMax
    /\ feed.recovered = {}
    /\ \E dt \in ScenarioOutageDeltas :
          LET ts == clock + dt * TimeStep
          IN  /\ ProcessEvent(Event(feed.outages + 1, ts, "outage"))
              /\ feed' = [feed EXCEPT
                            !.events = @ + 1,
                            !.outages = @ + 1,
                            !.firstOutage = IF @ = Undefined THEN ts ELSE @,
                            !.lastOutage = ts]
    /\ UNCHANGED statusVars

ScenarioRecovery ==
    /\ Unrecovered # {}
    /\ \E d \in {Lowest(Unrecovered), Highest(Unrecovered)},
          dt \in IF feed.recovered = {}
                 THEN ScenarioFirstRecoveryDeltas
                 ELSE ScenarioRecoveryDeltas :
          /\ ProcessEvent(Event(d, clock + dt * TimeStep, "recovery"))
          /\ feed' = [feed EXCEPT !.events = @ + 1,
                                  !.recovered = @ \cup {d}]
    /\ UNCHANGED statusVars

NextScenario ==
    \/ ScenarioOutage
    \/ ScenarioRecovery
    \/ Finalize

SpecScenario == Init /\ [][NextScenario]_vars

---------------------------------------------------------------------------
(* Repeated outages: in each wave the devices lo..hi report one outage    *)
(* each at the same instant, in device order, 5.5 minutes after the event *)
(* before; after a wave of one device that device may report a recovery.  *)

WaveFleet == 6
MaxWaves == 4

WaveGaps == {11}

WaveShapes ==
    {<<1, WaveFleet>>, <<2, WaveFleet>>, <<1, 1>>, <<WaveFleet, WaveFleet>>}

StartWave ==
    /\ feed.next = 0
    /\ feed.waves < MaxWaves
    /\ \E shape \in WaveShapes, gap \in WaveGaps :
          /\ ProcessEvent(Event(shape[1],
                                IF feed.waves = 0 THEN clock
                                ELSE clock + gap * TimeStep,
                                "outage"))
          /\ feed' = [feed EXCEPT
                        !.events = @ + 1,
                        !.waves = @ + 1,
                        !.next = IF shape[1] < shape[2] THEN shape[1] + 1 ELSE 0,
                        !.upto = shape[2]]
    /\ UNCHANGED statusVars

ContinueWave ==
    /\ feed.next # 0
    /\ ProcessEvent(Event(feed.next, clock, "outage"))
    /\ feed' = [feed EXCEPT
                  !.events = @ + 1,
                  !.next = IF feed.next < feed.upto THEN feed.next + 1 ELSE 0]
    /\ UNCHANGED statusVars

WaveRecovery ==
    /\ feed.next = 0
    /\ currentIncident # 0
    /\ Len(incidents[currentIncident].affectedDevices) = 1
    /\ incidents[currentIncident].affectedDevices[1] \in DOMAIN deviceOutages
    /\ ProcessEvent(Event(incidents[currentIncident].affectedDevices[1],
                          clock + TimeStep, "recovery"))
    /\ feed' = Count(feed)
    /\ UNCHANGED statusVars

NextWaves ==
    \/ StartWave
    \/ ContinueWave
    \/ WaveRecovery
    \/ Finalize

SpecWaves == Init /\ [][NextWaves]_vars

---------------------------------------------------------------------------
(* The dashboard's analyzeNetworkData: the events of the pass are kept,   *)
(* and once analyzeNetworkEvents has returned, getCurrentNetworkStatus    *)
(* and getDeviceRecoveryStatus (for every device of the logs) are called  *)
(* on them.                                                               *)

MaxStatusEvents == 3

(* Gaps between consecutive events, in TimeSteps: up to beyond the        *)
(* 30-minute window of getCurrentNetworkStatus.                           *)
StatusDeltas == {0, 1, 61}

(* Date.now() of the queries, in TimeSteps after the last event. *)
StatusLags == {0, 61}

EventTypes == {"outage", "recovery", "timeout"}

StatusEvent ==
    /\ Fed < MaxStatusEvents
    /\ \E type \in EventTypes, d \in Devices, dt \in StatusDeltas :
          LET e == Event(d, clock + dt * TimeStep, type)
          IN  /\ ProcessEvent(e)
              /\ events' = Append(events, e)
    /\ feed' = Count(feed)
    /\ UNCHANGED <<networkStatus, deviceStatus>>

AnalyzeNetworkData ==
    /\ FinalizePass
    /\ events' = events
    /\ \E lag \in StatusLags :
          LET dateNow == clock + lag * TimeStep
          IN  /\ networkStatus' = getCurrentNetworkStatus(events, dateNow)
              /\ deviceStatus' =
                    [d \in Devices |->
                        getDeviceRecoveryStatus(d, events, dateNow)]

NextStatus ==
    \/ StatusEvent
    \/ AnalyzeNetworkData

SpecStatus == Init /\ [][NextStatus]_vars

---------------------------------------------------------------------------
(* Devices that report again and again: outage and recovery events only,   *)
(* half a minute or 30.5 minutes apart, analysed by the dashboard as       *)
(* above.                                                                  *)

MaxRepeats == 4

RepeatDeltas == {1, 61}

RepeatTypes == {"outage", "recovery"}

RepeatedEvent ==
    /\ Fed < MaxRepeats
    /\ \E type \in RepeatTypes, d \in Devices, dt \in RepeatDeltas :
          LET e == Event(d, clock + dt * TimeStep, type)
          IN  /\ ProcessEvent(e)
              /\ events' = Append(events, e)
    /\ feed' = Count(feed)
    /\ UNCHANGED <<networkStatus, deviceStatus>>

NextRepeats ==
    \/ RepeatedEvent
    \/ AnalyzeNetworkData

SpecRepeats == Init /\ [][NextRepeats]_vars

---------------------------------------------------------------------------
(* Properties of the grouping pass *)

Resolved(inc) == inc.status = "resolved"

TwoMinutes == 2 * MS_PER_MINUTE

FiveMinutes == 5 * MS_PER_MINUTE

(* C1: after every processed event, in every incident, the recovered       *)
(* devices are a subset of the affected devices.                           *)
C1_RecoveredSubsetOfAffected ==
    \A i \in DOMAIN incidents :
        Elems(incidents[i].recoveredDevices) \subseteq
            Elems(incidents[i].affectedDevices)

(* A recovery has been credited to an incident that is not the first one,  *)
(* while the first one is still ongoing.                                   *)
C1_Witness ==
    /\ Len(incidents) >= 2
    /\ incidents[1].status = "ongoing"
    /\ \E i \in DOMAIN incidents : i > 1 /\ incidents[i].recoveredDevices # <<>>

(* C2: a step of the pass never takes an incident from resolved back to    *)
(* ongoing (nor drops it), and after every step endTime and duration are   *)
(* set exactly on the resolved incidents.                                  *)
C2_StatusOnlyResolves ==
    [][ /\ \A i \in DOMAIN incidents :
              /\ i \in DOMAIN incidents'
              /\ Resolved(incidents[i]) => Resolved(incidents'[i])
        /\ \A i \in DOMAIN incidents' :
              /\ (incidents'[i].endTime # Undefined) <=> Resolved(incidents'[i])
              /\ (incidents'[i].duration # Undefined) <=> Resolved(incidents'[i])
      ]_vars

(* A resolved incident has taken in a further device after its resolution, *)
(* and is still resolved.                                                  *)
C2_Witness ==
    \E i \in DOMAIN incidents :
        /\ Resolved(incidents[i])
        /\ incidents[i].endTime # Undefined
        /\ Len(incidents[i].affectedDevices) > Len(incidents[i].recoveredDevices)

(* C3: an outage event processed while a resolved incident holds its       *)
(* device opens a new incident and leaves that incident's affected and     *)
(* recovered devices as they were.                                         *)
C3_OutageAfterResolutionOpensIncident ==
    [][ \A e \in NextEvents("outage") :
          ProcessEvent(e) =>
            \A i \in DOMAIN incidents :
              (Resolved(incidents[i])
                 /\ Includes(incidents[i].affectedDevices, e.deviceImei))
              => /\ Len(incidents') = Len(incidents) + 1
                 /\ incidents'[i].affectedDevices = incidents[i].affectedDevices
                 /\ incidents'[i].recoveredDevices = incidents[i].recoveredDevices
      ]_vars

(* C4: an incident is resolved if and only if its recovered and affected   *)
(* devices are the same set, after every processed event and on return.    *)
C4_ResolvedIffAllRecovered ==
    \A i \in DOMAIN incidents :
        Resolved(incidents[i]) <=>
            Elems(incidents[i].recoveredDevices) =
                Elems(incidents[i].affectedDevices)

(* C5: every returned incident has an impact level within 0..100. *)
C5_ImpactWithinRange ==
    pc = "done" =>
        \A i \in DOMAIN incidents :
            incidents[i].impactLevel >= 0 /\ incidents[i].impactLevel <= 100

(* The scenario of C6 has been fed in full: 6 devices went down within 2   *)
(* minutes and all 6 recovered within the 3 minutes after that span.       *)
SixDownSixUp ==
    /\ feed.outages = 6
    /\ feed.recovered = 1..6
    /\ feed.lastOutage - feed.firstOutage <= TwoMinutes
    /\ clock - feed.firstOutage <= FiveMinutes

(* C6: with 10 devices in total, 6 devices down within 2 minutes and all   *)
(* up again within the next 3 yield exactly one incident, resolved,        *)
(* simultaneous, of impact 60 and severity critical.                       *)
C6_SixOfTenScenario ==
    (pc = "done" /\ SixDownSixUp) =>
        /\ Len(incidents) = 1
        /\ incidents[1].status = "resolved"
        /\ incidents[1].recoveryPattern = "simultaneous"
        /\ incidents[1].impactLevel = 60
        /\ incidents[1].severity = "critical"

(* The scenario was returned, with outages and recoveries spread in time.  *)
C6_Witness ==
    /\ pc = "done"
    /\ SixDownSixUp
    /\ feed.lastOutage > feed.firstOutage
    /\ clock > feed.lastOutage
    /\ incidents[1].recoveredDevices # incidents[1].affectedDevices

---------------------------------------------------------------------------
(* NotificationService *)

(* Bounds of the model *)
MaxOps == 2
MaxListeners == 2
InitLen == 99

(* "Keep only last 100 notifications" *)
MAX_NOTIFICATIONS == 100

(* What an alert says: its type, title, message and imei taken together. *)
Contents == {"Server Down Alert", "Device Offline"}

Users == {"Operations Team", "Admin"}

(* The subscriber callbacks: "reader" only reads the list it is handed (a  *)
(* React state setter), "once" calls its own unsubscribe function from     *)
(* inside the callback.                                                    *)
Listeners == {"reader", "once"}

ListenerKind(l) == IF l = "once" THEN "unsubscribes" ELSE "reads"

(* The notification built by addNotification: a fresh id (time and random  *)
(* suffix), the time of creation, not acknowledged.                        *)
NewNotification(content, time) ==
    [ id             |-> time,
      content        |-> content,
      timestamp      |-> time,
      acknowledged   |-> FALSE,
      acknowledgedBy |-> "none",
      acknowledgedAt |-> Undefined ]

UnshiftUnlessDuplicate(list, n) ==
    IF \E i \in DOMAIN list : list[i].content = n.content
    THEN list
    ELSE <<n>> \o list

(* this.notifications.unshift(newNotification) *)
Unshift(list, n) == <<n>> \o list

TruncateKeepingOldest(list) ==
    IF Len(list) > MAX_NOTIFICATIONS
    THEN SubSeq(list, Len(list) - MAX_NOTIFICATIONS + 1, Len(list))
    ELSE list

(* if (length > 100) this.notifications = this.notifications.slice(0, 100) *)
Truncate(list) ==
    IF Len(list) > MAX_NOTIFICATIONS
    THEN SubSeq(list, 1, MAX_NOTIFICATIONS)
    ELSE list

(* Array.prototype.indexOf, 0 when absent. *)
IndexOf(arr, x) ==
    LET hits == {i \in DOMAIN arr : arr[i] = x}
    IN  IF hits = {} THEN 0 ELSE CHOOSE i \in hits : \A j \in hits : i <= j

(* The unsubscribe function returned by subscribe: splice(index, 1) of     *)
(* the listener's first occurrence, nothing when it is absent.             *)
RemoveListener(ls, l) ==
    LET k == IndexOf(ls, l)
    IN  IF k = 0 THEN ls
        ELSE [i \in 1..(Len(ls) - 1) |-> IF i < k THEN ls[i] ELSE ls[i + 1]]

(* What calling listener l does to the listener array. *)
AfterCallback(ls, l) ==
    IF ListenerKind(l) = "unsubscribes" THEN RemoveListener(ls, l) ELSE ls

(* this.listeners.forEach(...): the indices 1..len of the array as it was  *)
(* at the start are visited in order, an index the array no longer has is  *)
(* skipped, and the array is read at the time of each visit.  An exception *)
(* of a listener is caught and the loop goes on.                           *)
RECURSIVE ForEachListener(_, _, _, _)
ForEachListener(ls, k, len, invoked) ==
    IF k > len THEN [listeners |-> ls, invoked |-> invoked]
    ELSE IF k > Len(ls) THEN ForEachListener(ls, k + 1, len, invoked)
    ELSE ForEachListener(AfterCallback(ls, ls[k]), k + 1, len,
                         Append(invoked, ls[k]))

notifyListeners(ls) == ForEachListener(ls, 1, Len(ls), <<>>)

(* The list every listener called in a round is handed: a copy of          *)
(* this.notifications; nothing when no listener is called.                 *)
Delivered(round, list) == IF round.invoked = <<>> THEN <<>> ELSE list

AcknowledgeAppliesToFound(list, id) ==
    \E i \in DOMAIN list : list[i].id = id

(* const notification = find(n => n.id === id);                            *)
(* if (notification && !notification.acknowledged)                         *)
AcknowledgeApplies(list, id) ==
    \E i \in DOMAIN list : list[i].id = id /\ ~list[i].acknowledged

FindNotification(list, id) ==
    LET hits == {i \in DOMAIN list : list[i].id = id}
    IN  CHOOSE i \in hits : \A j \in hits : i <= j

Acknowledged(n, by, time) ==
    [n EXCEPT !.acknowledged = TRUE,
              !.acknowledgedBy = by,
              !.acknowledgedAt = time]

(* addNotification(notification) *)
AddNotification(content) ==
    /\ ops < MaxOps
    /\ ops' = ops + 1
    /\ IF ~isEnabled
       THEN /\ last' = [NoCall EXCEPT !.op = "add", !.content = content,
                                      !.sizeBefore = Len(notifications)]
            /\ UNCHANGED <<notifications, listeners, now>>
       ELSE LET time  == now + 1
                list  == Truncate(Unshift(notifications,
                                          NewNotification(content, time)))
                round == notifyListeners(listeners)
            IN  /\ now' = time
                /\ notifications' = list
                /\ listeners' = round.listeners
                /\ last' = [op |-> "add", id |-> time, by |-> "none",
                            content |-> content,
                            sizeBefore |-> Len(notifications),
                            inserted |-> list # notifications,
                            invoked |-> round.invoked,
                            delivered |-> Delivered(round, list)]
    /\ UNCHANGED isEnabled

(* acknowledgeNotification(id, acknowledgedBy) *)
AcknowledgeNotification(id, by) ==
    /\ ops < MaxOps
    /\ ops' = ops + 1
    /\ now' = now + 1
    /\ IF AcknowledgeApplies(notifications, id)
       THEN LET list  == [notifications EXCEPT
                            ![FindNotification(notifications, id)] =
                                Acknowledged(@, by, now + 1)]
                round == notifyListeners(listeners)
            IN  /\ notifications' = list
                /\ listeners' = round.listeners
                /\ last' = [NoCall EXCEPT
                              !.op = "acknowledge", !.id = id, !.by = by,
                              !.sizeBefore = Len(notifications),
                              !.invoked = round.invoked,
                              !.delivered = Delivered(round, list)]
       ELSE /\ last' = [NoCall EXCEPT
                          !.op = "acknowledge", !.id = id, !.by = by,
                          !.sizeBefore = Len(notifications)]
            /\ UNCHANGED <<notifications, listeners>>
    /\ UNCHANGED isEnabled

(* subscribe(listener) *)
Subscribe(l) ==
    /\ Len(listeners) < MaxListeners
    /\ listeners' = Append(listeners, l)
    /\ UNCHANGED <<notifications, isEnabled, now, ops, last>>

(* The function subscribe(listener) returned, called from outside a        *)
(* notification round while the listener is in the array (called when it   *)
(* is not, indexOf is -1 and nothing changes).                             *)
Unsubscribe(l) ==
    /\ Includes(listeners, l)
    /\ listeners' = RemoveListener(listeners, l)
    /\ UNCHANGED <<notifications, isEnabled, now, ops, last>>

(* setEnabled(enabled) *)
SetEnabled(enabled) ==
    /\ isEnabled' = enabled
    /\ UNCHANGED <<notifications, listeners, now, ops, last>>

(* clearAll() *)
ClearAll ==
    LET round == notifyListeners(listeners)
    IN  /\ notifications' = <<>>
        /\ listeners' = round.listeners
        /\ last' = [NoCall EXCEPT !.op = "clearAll",
                                  !.sizeBefore = Len(notifications),
                                  !.invoked = round.invoked]
        /\ UNCHANGED <<isEnabled, now, ops>>

IsAcknowledgedEntry(n) == n.acknowledged

IsUnacknowledged(n) == ~n.acknowledged

(* this.notifications.filter(n => !n.acknowledged) *)
Unacknowledged(list) == SelectSeq(list, IsUnacknowledged)

(* clearAcknowledged() *)
ClearAcknowledged ==
    LET list  == Unacknowledged(notifications)
        round == notifyListeners(listeners)
    IN  /\ notifications' = list
        /\ listeners' = round.listeners
        /\ last' = [NoCall EXCEPT !.op = "clearAcknowledged",
                                  !.sizeBefore = Len(notifications),
                                  !.invoked = round.invoked,
                                  !.delivered = Delivered(round, list)]
        /\ UNCHANGED <<isEnabled, now, ops>>

(* The ids acknowledgeNotification is called with: one no notification    *)
(* has, and those of the newest and of the oldest notification.            *)
AcknowledgeTargets ==
    {0} \cup {notifications[i].id :
                 i \in {1, Len(notifications)} \cap DOMAIN notifications}

(* The list after n calls of addNotification on the enabled service. *)
Filled(n) ==
    [i \in 1..n |-> NewNotification("Server Down Alert", n + 1 - i)]

Add == \E c \in Contents : AddNotification(c) /\ UNCHANGED <<incidentVars, analyticsVars>>

Acknowledge ==
    \E id \in AcknowledgeTargets, by \in Users :
        AcknowledgeNotification(id, by) /\ UNCHANGED <<incidentVars, analyticsVars>>

SubscribeListener ==
    \E l \in Listeners :
        Subscribe(l) /\ UNCHANGED <<incidentVars, analyticsVars>>

UnsubscribeListener ==
    \E l \in Listeners : Unsubscribe(l) /\ UNCHANGED <<incidentVars, analyticsVars>>

ToggleEnabled ==
    \E b \in BOOLEAN :
        SetEnabled(b) /\ UNCHANGED <<incidentVars, analyticsVars>>

ClearAllNotifications == ClearAll /\ UNCHANGED <<incidentVars, analyticsVars>>

ClearAcknowledgedNotifications ==
    ClearAcknowledged /\ UNCHANGED <<incidentVars, analyticsVars>>

(* The service after InitLen notifications were added to it as             *)
(* constructed (enabled, no listener); clearAll leads back to the empty    *)
(* list.                                                                   *)
InitNotify ==
    /\ InitIncidents
    /\ InitAnalytics
    /\ notifications = Filled(InitLen)
    /\ now = InitLen
    /\ listeners = <<>>
    /\ isEnabled = TRUE
    /\ ops = 0
    /\ last = NoCall

NextNotify ==
    \/ Add
    \/ Acknowledge
    \/ SubscribeListener
    \/ UnsubscribeListener
    \/ ToggleEnabled
    \/ ClearAllNotifications
    \/ ClearAcknowledgedNotifications

SpecNotify == InitNotify /\ [][NextNotify]_vars

---------------------------------------------------------------------------
(* Properties of the notification service *)

(* The step is a call of addNotification. *)
AddCalled == ops' # ops /\ last'.op = "add"

(* The step is a call of acknowledgeNotification. *)
AcknowledgeCalled == ops' # ops /\ last'.op = "acknowledge"

HasId(list, id) == \E i \in DOMAIN list : list[i].id = id

Occurrences(arr, x) == Cardinality({i \in DOMAIN arr : arr[i] = x})

(* The entries after the first of `after` are the entries of `before`, in  *)
(* their order, as far as `after` goes.                                    *)
ShiftedByOne(before, after) ==
    \A i \in 2..Len(after) : i - 1 \in DOMAIN before /\ after[i] = before[i - 1]

(* C7: the list never holds more than 100 entries, and addNotification on  *)
(* the enabled service with exactly 100 entries leaves exactly 100: the    *)
(* new entry first, then the previous entries but the last, in order.      *)
C7_ListCappedAtHundred ==
    [][ /\ Len(notifications) <= 100
        /\ Len(notifications') <= 100
        /\ (AddCalled /\ isEnabled /\ Len(notifications) = 100) =>
              /\ Len(notifications') = 100
              /\ notifications'[1].id = last'.id
              /\ ~HasId(notifications, last'.id)
              /\ \A i \in 1..99 : notifications'[i + 1] = notifications[i]
              /\ ~HasId(notifications', notifications[100].id)
      ]_vars

(* addNotification has just run on a list of 100 entries. *)
C7_Witness ==
    /\ last.op = "add"
    /\ last.inserted
    /\ last.sizeBefore = 100
    /\ Len(notifications) = 100
    /\ notifications[1].id = last.id

(* C8: acknowledgeNotification with an id no entry has, or the id of an    *)
(* acknowledged entry, leaves the list and every entry as they were and    *)
(* invokes no subscriber (so the first acknowledger is retained).          *)
C8_AcknowledgeNoOp ==
    [][ ( /\ AcknowledgeCalled
          /\ \A i \in DOMAIN notifications :
                notifications[i].id = last'.id => notifications[i].acknowledged )
        => /\ notifications' = notifications
           /\ listeners' = listeners
           /\ last'.invoked = <<>>
      ]_vars

(* An acknowledged entry has been acknowledged again, by someone else,     *)
(* with a subscriber present, and kept its first acknowledger.             *)
C8_Witness ==
    /\ last.op = "acknowledge"
    /\ listeners # <<>>
    /\ last.invoked = <<>>
    /\ \E i \in DOMAIN notifications :
          /\ notifications[i].id = last.id
          /\ notifications[i].acknowledged
          /\ notifications[i].acknowledgedBy # last.by

(* C9: addNotification on the enabled service puts exactly one new,        *)
(* unacknowledged entry at the head, whatever the list already holds; on   *)
(* the disabled service it changes nothing and invokes no subscriber.      *)
C9_AddInsertsOneAtHead ==
    [][ AddCalled =>
          IF isEnabled
          THEN /\ notifications' # <<>>
               /\ notifications'[1].id = last'.id
               /\ notifications'[1].content = last'.content
               /\ ~notifications'[1].acknowledged
               /\ ~HasId(notifications, last'.id)
               /\ Len(notifications') =
                     IF Len(notifications) < 100 THEN Len(notifications) + 1
                     ELSE 100
               /\ ShiftedByOne(notifications, notifications')
          ELSE /\ notifications' = notifications
               /\ listeners' = listeners
               /\ last'.invoked = <<>>
      ]_vars

(* An alert with the content of an entry already in the list was added. *)
C9_Witness ==
    /\ last.op = "add"
    /\ last.inserted
    /\ notifications[1].id = last.id
    /\ \E i \in 2..Len(notifications) :
          notifications[i].content = notifications[1].content

(* C10: an addNotification that inserts an entry invokes every listener    *)
(* subscribed at the time of the call exactly once (and none that is not   *)
(* subscribed), with the full list as it is after the insertion.           *)
C10_AddNotifiesEverySubscriberOnce ==
    [][ (AddCalled /\ last'.inserted) =>
          /\ \A l \in Listeners :
                Occurrences(last'.invoked, l) = Occurrences(listeners, l)
          /\ last'.invoked # <<>> => last'.delivered = notifications'
      ]_vars

---------------------------------------------------------------------------
(* How entries leave the notification list *)

(* The entry of `list` with the given id, when there is one. *)
EntryWithId(list, id) == list[CHOOSE i \in DOMAIN list : list[i].id = id]

(* Entry i of the list is entry j of the list after the step, unchanged.   *)
KeptAt(i, j) ==
    /\ j \in DOMAIN notifications'
    /\ notifications'[j] = notifications[i]

(* Entry i is the oldest entry and the step is an addNotification that     *)
(* pushed the list beyond 100 entries.                                     *)
EvictedByCap(i) ==
    /\ AddCalled
    /\ last'.inserted
    /\ Len(notifications) = 100
    /\ i = Len(notifications)

(* An entry that stays keeps its id, content and timestamp, and its        *)
(* acknowledgement only goes from unset to set.                            *)
ChangedOnlyByAcknowledgement(old, new) ==
    /\ new.id = old.id
    /\ new.content = old.content
    /\ new.timestamp = old.timestamp
    /\ old.acknowledged =>
          /\ new.acknowledged
          /\ new.acknowledgedBy = old.acknowledgedBy
          /\ new.acknowledgedAt = old.acknowledgedAt

(* Entry i is still in the list after the step, changed at most by being   *)
(* acknowledged. The places next to i are looked at first.                 *)
Stayed(i) ==
    \/ KeptAt(i, i)
    \/ KeptAt(i, i + 1)
    \/ KeptAt(i, i - 1)
    \/ /\ i \in DOMAIN notifications'
       /\ ChangedOnlyByAcknowledgement(notifications[i], notifications'[i])
    \/ /\ HasId(notifications', notifications[i].id)
       /\ ChangedOnlyByAcknowledgement(
              notifications[i],
              EntryWithId(notifications', notifications[i].id))

(* Entry i is not in the list after the step. *)
Left(i) == ~HasId(notifications', notifications[i].id)

---------------------------------------------------------------------------
(* Severity, incident windows, ignored events, patterns, metrics *)

(* C15: once the pass has returned, the severity of every incident is      *)
(* "critical" when its impact level exceeds 50 or its duration exceeds 30  *)
(* minutes, otherwise "high" when the impact level exceeds 20 or the       *)
(* duration exceeds 10 minutes, otherwise "medium"; an unset duration      *)
(* exceeds nothing.                                                        *)
C15_SeverityFromImpactAndDuration ==
    pc = "done" =>
        \A i \in DOMAIN incidents :
            LET inc == incidents[i]
                longer(n) == inc.duration # Undefined /\ inc.duration > n
            IN  inc.severity =
                    IF inc.impactLevel > 50 \/ longer(30) THEN "critical"
                    ELSE IF inc.impactLevel > 20 \/ longer(10) THEN "high"
                    ELSE "medium"

(* The pass has returned an incident that is critical by its duration      *)
(* alone, next to one that is high by its impact with its duration unset.  *)
C15_Witness ==
    /\ pc = "done"
    /\ \E i \in DOMAIN incidents :
          /\ incidents[i].impactLevel <= 20
          /\ incidents[i].duration > 30
          /\ incidents[i].severity = "critical"
    /\ \E i \in DOMAIN incidents :
          /\ incidents[i].duration = Undefined
          /\ incidents[i].severity = "high"

(* C17: an outage opens a new incident exactly when there is no incident   *)
(* yet or its timestamp is more than 5 minutes after the start of the      *)
(* most recently opened incident; otherwise it creates none and its device *)
(* is in that incident's affected devices exactly once.                    *)
C17_WindowFromIncidentStart ==
    [][ \A e \in NextEvents("outage") :
          ProcessEvent(e) =>
            LET n == Len(incidents)
            IN  IF n = 0 \/ e.timestamp - incidents[n].startTime > FiveMinutes
                THEN /\ Len(incidents') = n + 1
                     /\ SubSeq(incidents', 1, n) = incidents
                     /\ incidents'[n + 1].startTime = e.timestamp
                     /\ incidents'[n + 1].affectedDevices = <<e.deviceImei>>
                ELSE /\ Len(incidents') = n
                     /\ \A i \in 1 .. (n - 1) : incidents'[i] = incidents[i]
                     /\ Elems(incidents'[n].affectedDevices) =
                           Elems(incidents[n].affectedDevices) \cup {e.deviceImei}
                     /\ Occurrences(incidents'[n].affectedDevices,
                                    e.deviceImei) = 1
      ]_vars

(* A second incident was opened more than 5 minutes after the start of the *)
(* first, though within 5 minutes of an outage that joined the first.      *)
C17_Witness ==
    /\ Len(incidents) = 2
    /\ Len(incidents[1].affectedDevices) = 2
    /\ incidents[2].startTime - incidents[1].startTime > FiveMinutes
    /\ \E d \in DOMAIN deviceOutages :
          /\ deviceOutages[d] > incidents[1].startTime
          /\ deviceOutages[d] < incidents[2].startTime
          /\ incidents[2].startTime - deviceOutages[d] <= FiveMinutes

(* C18: a timeout event, and a recovery event of a device that has no      *)
(* recorded outage, leave the whole incident list as it was.               *)
C18_IgnoredEventsChangeNothing ==
    [][ /\ \A e \in NextEvents("timeout") :
              ProcessEvent(e) => incidents' = incidents
        /\ \A e \in NextEvents("recovery") :
              (ProcessEvent(e) /\ e.deviceImei \notin DOMAIN deviceOutages)
                  => incidents' = incidents
      ]_vars

(* Four events have been processed, no device has a recorded outage, and   *)
(* an ongoing incident still holds a device whose recovery resolved an     *)
(* earlier incident: the fourth event was a timeout or a recovery without  *)
(* a recorded outage.                                                      *)
C18_Witness ==
    /\ pc = "grouping"
    /\ feed.events = 4
    /\ DOMAIN deviceOutages = {}
    /\ Len(incidents) = 2
    /\ incidents[1].status = "resolved"
    /\ incidents[2].status = "ongoing"
    /\ incidents[2].affectedDevices = incidents[1].affectedDevices
    /\ Len(incidents[2].affectedDevices) = 1

(* C19: once the pass has returned, the recovery pattern of every incident *)
(* is "simultaneous" when none or all of its affected devices recovered,   *)
(* "gradual" when more than 80% but not all did, and "partial" otherwise.  *)
C19_PatternAgreesWithFinalSets ==
    pc = "done" =>
        \A i \in DOMAIN incidents :
            LET r == Cardinality(Elems(incidents[i].recoveredDevices))
                a == Cardinality(Elems(incidents[i].affectedDevices))
            IN  incidents[i].recoveryPattern =
                    IF r = 0 \/ r = a THEN "simultaneous"
                    ELSE IF 5 * r > 4 * a THEN "gradual"
                    ELSE "partial"

(* The number of incidents that hold the device. *)
IncidentsOf(device) ==
    Cardinality({i \in DOMAIN incidents :
                    Includes(incidents[i].affectedDevices, device)})

(* The devices that appear in some incident. *)
AffectedSomewhere ==
    UNION {Elems(incidents[i].affectedDevices) : i \in DOMAIN incidents}

(* C20: the metrics returned with the incidents count them: totalOutages   *)
(* and the sum of the three pattern counts are the number of incidents,    *)
(* recoveryRate is the rounded percentage of resolved incidents (0 without *)
(* any), and frequentlyAffectedDevices holds at most 5 devices, each in    *)
(* more than 2 incidents, in non-increasing order of that number, leaving  *)
(* out no device that is in more incidents than a listed one.              *)
C20_MetricsMatchIncidents ==
    pc = "done" =>
        LET n == Len(incidents)
            resolved == Cardinality({i \in DOMAIN incidents :
                                        Resolved(incidents[i])})
            listed == metrics.frequentlyAffectedDevices
        IN  /\ metrics.totalOutages = n
            /\ metrics.recoveryPatterns["simultaneous"]
                 + metrics.recoveryPatterns["gradual"]
                 + metrics.recoveryPatterns["partial"] = n
            /\ IF resolved = 0
               THEN metrics.recoveryRate = 0
               ELSE /\ 2 * n * metrics.recoveryRate <= 200 * resolved + n
                    /\ 200 * resolved + n < 2 * n * (metrics.recoveryRate + 1)
            /\ Len(listed) <= 5
            /\ \A k \in DOMAIN listed : IncidentsOf(listed[k]) > 2
            /\ \A k \in 1 .. (Len(listed) - 1) :
                  IncidentsOf(listed[k]) >= IncidentsOf(listed[k + 1])
            /\ \A d \in AffectedSomewhere \ Elems(listed) :
                  \A k \in DOMAIN listed :
                      IncidentsOf(d) <= IncidentsOf(listed[k])

(* Five devices are listed, the device that joined the Map last comes      *)
(* first, and a device that is in more than 2 incidents is left out.       *)
C20_Witness ==
    /\ pc = "done"
    /\ Len(metrics.frequentlyAffectedDevices) = 5
    /\ metrics.frequentlyAffectedDevices[1] = WaveFleet
    /\ \E d \in AffectedSomewhere \ Elems(metrics.frequentlyAffectedDevices) :
          IncidentsOf(d) > 2

(* C16: the analysis of no events returns no incidents and metrics that    *)
(* are all zero, the network status over no events is healthy with no      *)
(* affected devices, and the recovery status of a device without events is *)
(* online with no outages, average recovery time 0 and reliability 100.    *)
C16_EmptyInputsNeutral ==
    pc = "done" =>
        /\ events = <<>> =>
              /\ incidents = <<>>
              /\ metrics.totalOutages = 0
              /\ metrics.averageOutageDuration = 0
              /\ metrics.longestOutage = 0
              /\ metrics.shortestOutage = 0
              /\ metrics.recoveryRate = 0
              /\ metrics.frequentlyAffectedDevices = <<>>
              /\ \A p \in DOMAIN metrics.recoveryPatterns :
                    metrics.recoveryPatterns[p] = 0
              /\ networkStatus.status = "healthy"
              /\ networkStatus.affectedDevices = <<>>
        /\ \A d \in Devices :
              (\A k \in DOMAIN events : events[k].deviceImei # d) =>
                  /\ deviceStatus[d].status = "online"
                  /\ deviceStatus[d].outageCount = 0
                  /\ deviceStatus[d].averageRecoveryTime = 0
                  /\ deviceStatus[d].reliability = 100

(* The dashboard has analysed no events at all. *)
C16_Witness ==
    /\ pc = "done"
    /\ events = <<>>
    /\ metrics.totalOutages = 0
    /\ networkStatus.status = "healthy"
    /\ \A d \in Devices : deviceStatus[d].reliability = 100

---------------------------------------------------------------------------
(* AnalyticsService: calculateDeviceHealthScore and detectAnomalies        *)
(*                                                                         *)
(* A log's timestamp is given as the number of minutes it lies before the  *)
(* `new Date()` of the call (Undefined when the log carries none), and a   *)
(* voltage in tenths of a volt (Undefined when the log carries none).      *)
(* Means and weighted sums are kept as exact fractions [num, den].         *)

HOUR == 60

DAY == 24 * HOUR

IgnitionLog(imei, ts, voltage) ==
    [deviceImei |-> imei, timestamp |-> ts, voltage |-> voltage]

ExceptionLog(imei, ts) == [deviceImei |-> imei, timestamp |-> ts]

(* parseTimestamp: a missing or unparseable timestamp becomes new Date(). *)
parseTimestamp(ts) == IF ts = Undefined THEN 0 ELSE ts

AnyLog(log) == TRUE

(* logDate > subHours(new Date(), 1) *)
IsRecentLog(log) == parseTimestamp(log.timestamp) < HOUR

(* parseTimestamp(log.timestamp) > subDays(new Date(), 1) *)
IsWithinDay(log) == parseTimestamp(log.timestamp) < DAY

(* `log.voltage` as a filter: a missing or zero voltage is dropped. *)
HasVoltage(log) == log.voltage # Undefined /\ log.voltage # 0

(* slice(-n) *)
SliceLast(arr, n) ==
    SubSeq(arr, IF Len(arr) > n THEN Len(arr) - n + 1 ELSE 1, Len(arr))

Voltages(logs) == [k \in DOMAIN logs |-> logs[k].voltage]

OfDevice(logs, imei) == SelectSeq(logs, LAMBDA log : log.deviceImei = imei)

Min(a, b) == IF a < b THEN a ELSE b

AverageVoltageFullByDefault(readings) ==
    IF Len(readings) > 0
    THEN [num |-> SumSeq(readings), den |-> Len(readings)]
    ELSE [num |-> 126, den |-> 1]

(* The mean of the readings, 12.0 V when there are none. *)
AverageVoltage(readings) ==
    IF Len(readings) > 0
    THEN [num |-> SumSeq(readings), den |-> Len(readings)]
    ELSE [num |-> 120, den |-> 1]

(* Math.max(0, Math.min(100, (avgVoltage / 12.6) * 100)) *)
BatteryHealth(avg) ==
    IF 100 * avg.num > 100 * 126 * avg.den
    THEN [num |-> 100, den |-> 1]
    ELSE [num |-> 100 * avg.num, den |-> 126 * avg.den]

(* totalLogs > 0 ? Math.max(0, 100 - (exceptions / totalLogs) * 100) : 100 *)
ErrorRate(exceptions, totalLogs) ==
    IF totalLogs > 0
    THEN [num |-> 100 * (totalLogs - exceptions), den |-> totalLogs]
    ELSE [num |-> 100, den |-> 1]

(* Math.round(connectivity * 0.3 + batteryHealth * 0.25 + errorRate * 0.25 *)
(*            + uptime * 0.2), the weights taken as twentieths.            *)
WeightedScore(connectivity, batteryHealth, errorRate, uptime) ==
    Round(  6 * connectivity * batteryHealth.den * errorRate.den
          + 5 * batteryHealth.num * errorRate.den
          + 5 * errorRate.num * batteryHealth.den
          + 4 * uptime * batteryHealth.den * errorRate.den,
          20 * batteryHealth.den * errorRate.den)

calculateDeviceHealthScore(imei, ignitions, exceptions) ==
    LET deviceIgnitions == OfDevice(ignitions, imei)
        deviceExceptions == OfDevice(exceptions, imei)
        recentLogs == SelectSeq(deviceIgnitions \o deviceExceptions, IsRecentLog)
        connectivity == Min(100, Len(recentLogs) * 10)
        voltageReadings ==
            SliceLast(Voltages(SelectSeq(deviceIgnitions, HasVoltage)), 10)
        batteryHealth == BatteryHealth(AverageVoltage(voltageReadings))
        totalLogs == Len(deviceIgnitions) + Len(deviceExceptions)
        errorRate == ErrorRate(Len(deviceExceptions), totalLogs)
        recentActivity == SelectSeq(recentLogs, IsWithinDay)
        uptime == Min(100, Len(recentActivity) * 5)
    IN  [ imei |-> imei,
          score |-> WeightedScore(connectivity, batteryHealth, errorRate, uptime),
          factors |->
              [ connectivity |-> connectivity,
                batteryHealth |-> Round(batteryHealth.num, batteryHealth.den),
                errorRate |-> Round(errorRate.num, errorRate.den),
                uptime |-> uptime ] ]

Anomaly(imei, type, severity) ==
    [imei |-> imei, type |-> type, severity |-> severity]

AtMostNominal(sum, n) == sum <= 120 * n

(* avgVoltage < 11.5 *)
BelowThreshold(sum, n) == sum < 115 * n

(* avgVoltage < 11.0 *)
BelowCritical(sum, n) == sum < 110 * n

(* "Voltage drop detection" for one device group. *)
VoltageDropAnomalies(imei, ignitions) ==
    LET recentVoltages ==
            Voltages(SliceLast(SelectSeq(ignitions, HasVoltage), 5))
        sum == SumSeq(recentVoltages)
        n == Len(recentVoltages)
    IN  IF n >= 3 /\ BelowThreshold(sum, n)
        THEN <<Anomaly(imei, "voltage_drop",
                       IF BelowCritical(sum, n) THEN "critical" ELSE "high")>>
        ELSE <<>>

(* "Frequent restarts detection" for one device group. *)
FrequentRestartAnomalies(imei, exceptions) ==
    LET recentExceptions == SelectSeq(exceptions, IsRecentLog)
    IN  IF Len(recentExceptions) > 5
        THEN <<Anomaly(imei, "frequent_restarts", "high")>>
        ELSE <<>>

DeviceImeis(logs) == [k \in DOMAIN logs |-> logs[k].deviceImei]

(* deviceGroups.forEach over the keys in insertion order. *)
RECURSIVE ForEachDeviceGroup(_, _, _)
ForEachDeviceGroup(keys, ignitions, exceptions) ==
    IF keys = <<>> THEN <<>>
    ELSE VoltageDropAnomalies(Head(keys), OfDevice(ignitions, Head(keys)))
         \o FrequentRestartAnomalies(Head(keys), OfDevice(exceptions, Head(keys)))
         \o ForEachDeviceGroup(Tail(keys), ignitions, exceptions)

detectAnomalies(ignitions, exceptions) ==
    ForEachDeviceGroup(
        MapKeys(DeviceImeis(ignitions) \o DeviceImeis(exceptions)),
        ignitions, exceptions)

---------------------------------------------------------------------------
(* Texts of the exception logs (main, details)                             *)
(*                                                                         *)
(* A text is the sequence of its words; a keyword is a sequence of lower   *)
(* case words, included in a text when its words appear there in a row.    *)

(* The words of the logs that are not lower case, and their lower case. *)
LowerCase ==
    [ Server |-> "server", Down |-> "down", Connection |-> "connection",
      Timeout |-> "timeout", DOWN |-> "down", Up |-> "up",
      Restored |-> "restored", Retry |-> "retry" ]

(* A text that is missing (undefined) or empty: every use of a text below  *)
(* treats the two alike.                                                   *)
NoText == <<>>

(* String.prototype.toLowerCase *)
toLowerCase(text) ==
    [i \in DOMAIN text |->
        IF text[i] \in DOMAIN LowerCase THEN LowerCase[text[i]] ELSE text[i]]

(* String.prototype.includes *)
includes(text, keyword) ==
    \E i \in 0 .. (Len(text) - Len(keyword)) :
        SubSeq(text, i + 1, i + Len(keyword)) = keyword

(* `log.main?.toLowerCase().includes(keyword)`: undefined, so false, for a *)
(* log without main.                                                       *)
MainIncludes(log, keyword) ==
    /\ log.main # NoText
    /\ includes(toLowerCase(log.main), keyword)

FullExceptionLog(imei, ts, main, details) ==
    [deviceImei |-> imei, timestamp |-> ts, main |-> main, details |-> details]

---------------------------------------------------------------------------
(* extractNetworkEvents and analyzeNetworkEvents as functions of the logs  *)

(* The if / else-if chain of the forEach body: "none" for null. *)
EventTypeOf(log) ==
    LET main == toLowerCase(log.main)        \* log.main?.toLowerCase() || ''
        details == toLowerCase(log.details)
    IN  IF \/ includes(main, <<"server", "down">>)
           \/ includes(details, <<"server", "unavailable">>)
           \/ includes(details, <<"connection", "failed">>)
           \/ includes(details, <<"network", "error">>)
        THEN "outage"
        ELSE IF \/ includes(main, <<"server", "up">>)
                \/ includes(main, <<"connection", "restored">>)
                \/ includes(main, <<"network", "restored">>)
                \/ includes(details, <<"server", "available">>)
                \/ includes(details, <<"connection", "established">>)
                \/ includes(details, <<"back", "online">>)
                \/ includes(details, <<"connectivity", "restored">>)
        THEN "recovery"
        ELSE IF \/ includes(main, <<"timeout">>)
                \/ includes(details, <<"timeout">>)
                \/ includes(main, <<"retry">>)
                \/ includes(details, <<"attempting", "reconnection">>)
        THEN "timeout"
        ELSE "none"

(* The event pushed for a log: details is                                  *)
(* `log.details || log.main || 'Network event detected'`.                  *)
NetworkEvent(log) ==
    [ deviceImei |-> log.deviceImei,
      timestamp  |-> log.timestamp,
      eventType  |-> EventTypeOf(log),
      details    |-> IF log.details # NoText THEN log.details
                     ELSE IF log.main # NoText THEN log.main
                     ELSE <<"Network", "event", "detected">> ]

IsNetworkEvent(e) == e.eventType # "none"

(* events.sort((a, b) => a.timestamp.getTime() - b.timestamp.getTime()):   *)
(* the sort is stable, events of one timestamp keep the order of the logs. *)
SortByTimestamp(evs) ==
    LET before(i) == {j \in DOMAIN evs :
                        \/ evs[j].timestamp < evs[i].timestamp
                        \/ /\ evs[j].timestamp = evs[i].timestamp
                           /\ j < i}
    IN  [r \in DOMAIN evs |->
            evs[CHOOSE i \in DOMAIN evs : Cardinality(before(i)) = r - 1]]

extractNetworkEvents(logs) ==
    LET pushed == SelectSeq([k \in DOMAIN logs |-> NetworkEvent(logs[k])],
                            IsNetworkEvent)
    IN  SortByTimestamp(pushed)

(* The locals of groupEventsIntoIncidents at its entry. *)
GroupingStart ==
    [incidents |-> <<>>, deviceOutages |-> NoOutage, currentIncident |-> 0]

(* One iteration of events.forEach, on the locals. *)
GroupEvent(st, event) ==
    IF event.eventType = "outage"
    THEN LET opens == StartsNewIncident(st.incidents, st.currentIncident, event)
         IN  [ incidents |->
                   IF opens THEN Append(st.incidents, NewIncident(event))
                   ELSE [st.incidents EXCEPT ![st.currentIncident] =
                            AddToIncident(@, event.deviceImei)],
               deviceOutages |->
                   MapSet(st.deviceOutages, event.deviceImei, event.timestamp),
               currentIncident |->
                   IF opens THEN Len(st.incidents) + 1 ELSE st.currentIncident ]
    ELSE IF /\ event.eventType = "recovery"
            /\ HasRecordedOutage(st.deviceOutages, event.deviceImei)
    THEN LET i == FindIncident(st.incidents, event.deviceImei)
         IN  [ incidents |->
                   IF i # 0
                   THEN [st.incidents EXCEPT ![i] = RecoverDevice(@, event)]
                   ELSE st.incidents,
               deviceOutages |-> MapDelete(st.deviceOutages, event.deviceImei),
               currentIncident |-> st.currentIncident ]
    ELSE st

RECURSIVE ForEachEvent(_, _)
ForEachEvent(st, evs) ==
    IF evs = <<>> THEN st
    ELSE ForEachEvent(GroupEvent(st, Head(evs)), Tail(evs))

(* groupEventsIntoIncidents: the locals after both forEach loops. *)
groupEventsIntoIncidents(evs) ==
    LET st == ForEachEvent(GroupingStart, evs)
    IN  [st EXCEPT !.incidents =
                      [i \in DOMAIN @ |-> FinalizeIncident(@[i])]]

---------------------------------------------------------------------------
(* calculateServerHealth *)

(* The filter of serverExceptions: of the last 24 hours and server-related *)
IsServerException(log) ==
    /\ IsWithinDay(log)
    /\ \/ MainIncludes(log, <<"server", "down">>)
       \/ MainIncludes(log, <<"server", "unavailable">>)
       \/ MainIncludes(log, <<"connection", "timeout">>)

IsServerDownOfAnyAge(log) == MainIncludes(log, <<"server", "down">>)

(* The filter of recentServerDown *)
IsRecentServerDown(log) ==
    IsRecentLog(log) /\ MainIncludes(log, <<"server", "down">>)

(* Math.round(Math.max(0, ((1440 - downtime) / 1440) * 100) * 100) / 100,  *)
(* in hundredths of a percent.                                             *)
UptimePercentage(downtimeMinutes) ==
    LET totalMinutes == 24 * 60
    IN  IF totalMinutes - downtimeMinutes < 0 THEN 0
        ELSE Round((totalMinutes - downtimeMinutes) * 10000, totalMinutes)

calculateServerHealth(exceptions) ==
    LET serverExceptions == SelectSeq(exceptions, IsServerException)
        recentServerDown == SelectSeq(serverExceptions, IsRecentServerDown)
        status ==
            IF Len(recentServerDown) > 0 THEN "offline"
            ELSE IF Len(serverExceptions) > 5 THEN "degraded"
            ELSE "online"
        downtimeMinutes == Len(serverExceptions) * 2
        affectedDevices == Cardinality(Elems(DeviceImeis(serverExceptions)))
        totalDevices == Cardinality(Elems(DeviceImeis(exceptions)))
    IN  [ status |-> status,
          uptime |-> UptimePercentage(downtimeMinutes),
          responseTime |->
              IF status = "online" THEN 150
              ELSE IF status = "degraded" THEN 500 ELSE 0,
          connectedDevices |-> totalDevices - affectedDevices,
          totalDevices |-> totalDevices,
          lastDowntime |->
              IF Len(serverExceptions) > 0
              THEN parseTimestamp(serverExceptions[1].timestamp)
              ELSE Undefined,
          downtimeToday |-> downtimeMinutes ]

---------------------------------------------------------------------------
(* The logs of a watched device arrive one by one, next to the logs of a   *)
(* second device that are there from the start or not at all, and the      *)
(* analysis is asked for once.                                             *)

MaxLogs == 6
MaxHealthLogs == 3

WatchedDevice == "imei-1"

OtherDevice == "imei-2"

AnalyticsDevices == {WatchedDevice, OtherDevice}

(* The second device: three readings of 10.0 V and six exceptions of the   *)
(* last half hour.                                                         *)
OtherIgnitions == [k \in 1 .. 3 |-> IgnitionLog(OtherDevice, 30, 100)]

OtherExceptions == [k \in 1 .. 6 |-> ExceptionLog(OtherDevice, 30)]

InitLogs ==
    /\ InitIncidents
    /\ InitNotifications
    /\ health = NoHealth
    /\ anomalies = NoAnomalies
    /\ serverHealth = NoServerHealth
    /\ \/ ignitionLogs = <<>> /\ exceptionLogs = <<>>
       \/ ignitionLogs = OtherIgnitions /\ exceptionLogs = OtherExceptions

(* The logs received of the watched device. *)
Received ==
    Len(OfDevice(ignitionLogs, WatchedDevice))
      + Len(OfDevice(exceptionLogs, WatchedDevice))

Collecting ==
    /\ health = NoHealth
    /\ ~anomalies.returned
    /\ serverHealth = NoServerHealth

(* The last voltage reported by the watched device, 12.6 V before any. *)
LastReading ==
    LET readings ==
            Voltages(SelectSeq(OfDevice(ignitionLogs, WatchedDevice), HasVoltage))
    IN  IF readings = <<>> THEN 126 ELSE readings[Len(readings)]

(* The next reading is missing, 0.2 V below the last one, or 10.0 V. *)
NextReadings == {Undefined, LastReading - 2, 100}

(* Timestamps of the exceptions: half an hour old, one and a half hours    *)
(* old, or missing.                                                        *)
ExceptionStamps == {30, 90, Undefined}

AnomalyIgnition ==
    /\ Collecting
    /\ Received < MaxLogs
    /\ \E v \in NextReadings :
          ignitionLogs' = Append(ignitionLogs, IgnitionLog(WatchedDevice, 30, v))
    /\ UNCHANGED <<exceptionLogs, health, anomalies, serverHealth>>
    /\ UNCHANGED <<incidentVars, notificationVars>>

AnomalyException ==
    /\ Collecting
    /\ Received < MaxLogs
    /\ \E ts \in ExceptionStamps :
          exceptionLogs' = Append(exceptionLogs, ExceptionLog(WatchedDevice, ts))
    /\ UNCHANGED <<ignitionLogs, health, anomalies, serverHealth>>
    /\ UNCHANGED <<incidentVars, notificationVars>>

DetectAnomalies ==
    /\ Collecting
    /\ anomalies' = [returned |-> TRUE,
                     list |-> detectAnomalies(ignitionLogs, exceptionLogs)]
    /\ UNCHANGED <<ignitionLogs, exceptionLogs, health, serverHealth>>
    /\ UNCHANGED <<incidentVars, notificationVars>>

NextAnomalies ==
    \/ AnomalyIgnition
    \/ AnomalyException
    \/ DetectAnomalies

SpecAnomalies == InitLogs /\ [][NextAnomalies]_vars

(* Timestamps of the logs scored: half an hour, two hours or 25 hours old, *)
(* or missing.                                                             *)
HealthStamps == {30, 120, 1500, Undefined}

(* Voltages of the ignition logs scored: missing, 11.0 V, 12.6 V, 13.0 V. *)
HealthVoltages == {Undefined, 110, 126, 130}

HealthIgnition ==
    /\ Collecting
    /\ Received < MaxHealthLogs
    /\ \E ts \in HealthStamps, v \in HealthVoltages :
          ignitionLogs' = Append(ignitionLogs, IgnitionLog(WatchedDevice, ts, v))
    /\ UNCHANGED <<exceptionLogs, health, anomalies, serverHealth>>
    /\ UNCHANGED <<incidentVars, notificationVars>>

HealthException ==
    /\ Collecting
    /\ Received < MaxHealthLogs
    /\ \E ts \in HealthStamps :
          exceptionLogs' = Append(exceptionLogs, ExceptionLog(WatchedDevice, ts))
    /\ UNCHANGED <<ignitionLogs, health, anomalies, serverHealth>>
    /\ UNCHANGED <<incidentVars, notificationVars>>

CalculateDeviceHealthScore ==
    /\ Collecting
    /\ \E imei \in AnalyticsDevices :
          health' = calculateDeviceHealthScore(imei, ignitionLogs, exceptionLogs)
    /\ UNCHANGED <<ignitionLogs, exceptionLogs, anomalies, serverHealth>>
    /\ UNCHANGED <<incidentVars, notificationVars>>

NextHealth ==
    \/ HealthIgnition
    \/ HealthException
    \/ CalculateDeviceHealthScore

SpecHealth == InitLogs /\ [][NextHealth]_vars

---------------------------------------------------------------------------
(* The server health is asked for over exception logs that arrive one by   *)
(* one, after none, after five connection timeouts of the second device,   *)
(* or after a day of them.                                                 *)

MaxServerLogs == 2
ManyLogs == 719

(* What the exceptions say in main; some logs carry no main. *)
ServerMains ==
    { <<"Server", "Down">>, <<"Connection", "Timeout">>,
      <<"server", "unavailable">>, <<"gps", "error">>, NoText }

(* Timestamps of the exceptions: half an hour, two hours or 25 hours old,  *)
(* or missing.                                                             *)
ServerStamps == {30, 120, 1500, Undefined}

Timeouts(n) ==
    [k \in 1 .. n |->
        FullExceptionLog(OtherDevice, 120, <<"Connection", "Timeout">>, NoText)]

InitServer ==
    /\ InitIncidents
    /\ InitNotifications
    /\ health = NoHealth
    /\ anomalies = NoAnomalies
    /\ serverHealth = NoServerHealth
    /\ ignitionLogs = <<>>
    /\ exceptionLogs \in {<<>>, Timeouts(5), Timeouts(ManyLogs)}

ServerException ==
    /\ Collecting
    /\ Received < MaxServerLogs
    /\ \E ts \in ServerStamps, main \in ServerMains :
          exceptionLogs' =
              Append(exceptionLogs,
                     FullExceptionLog(WatchedDevice, ts, main, NoText))
    /\ UNCHANGED <<ignitionLogs, health, anomalies, serverHealth>>
    /\ UNCHANGED <<incidentVars, notificationVars>>

CalculateServerHealth ==
    /\ Collecting
    /\ serverHealth' = calculateServerHealth(exceptionLogs)
    /\ UNCHANGED <<ignitionLogs, exceptionLogs, health, anomalies>>
    /\ UNCHANGED <<incidentVars, notificationVars>>

NextServer ==
    \/ ServerException
    \/ CalculateServerHealth

SpecServer == InitServer /\ [][NextServer]_vars

---------------------------------------------------------------------------
(* analyzeNetworkEvents over exception logs: the logs arrive in any order  *)
(* of their timestamps, the dashboard analyses them, and analyses them     *)
(* again whenever they are handed over in another order.  Every log        *)
(* carries a timestamp.                                                    *)

MaxExtract == 2

ExtractDevices == {1, 2}

(* The same instant, half a minute and 5.5 minutes later. *)
ExtractStamps == {0, TimeStep, 11 * TimeStep}

(* What the logs say in main and in details. *)
ExtractTexts ==
    { [main |-> <<"Server", "DOWN">>, details |-> NoText],
      [main |-> <<"server", "up">>, details |-> <<"network", "error">>],
      [main |-> <<"Server", "Up">>, details |-> NoText],
      [main |-> <<"Connection", "Timeout">>, details |-> NoText],
      [main |-> <<"gps", "error">>, details |-> <<"low", "signal">>],
      [main |-> NoText, details |-> <<"server", "down">>] }

(* What analyzeNetworkEvents leaves behind for the logs. *)
Analyzed(logs) ==
    LET networkEvents == extractNetworkEvents(logs)
        grouped == groupEventsIntoIncidents(networkEvents)
    IN  /\ events' = networkEvents
        /\ incidents' = grouped.incidents
        /\ deviceOutages' = grouped.deviceOutages
        /\ currentIncident' = grouped.currentIncident
        /\ metrics' = calculateRecoveryMetrics(grouped.incidents)
        /\ clock' = IF networkEvents = <<>> THEN clock
                    ELSE networkEvents[Len(networkEvents)].timestamp
        /\ feed' = [feed EXCEPT !.events = Len(networkEvents)]
        /\ pc' = "done"

ExceptionArrives ==
    /\ pc = "grouping"
    /\ Len(exceptionLogs) < MaxExtract
    /\ \E d \in ExtractDevices, ts \in ExtractStamps, text \in ExtractTexts :
          exceptionLogs' =
              Append(exceptionLogs,
                     FullExceptionLog(d, ts, text.main, text.details))
    /\ UNCHANGED <<ignitionLogs, health, anomalies, serverHealth>>
    /\ UNCHANGED <<incidentVars, notificationVars>>

(* analyzeNetworkEvents(ignitionLogs, exceptionLogs) *)
AnalyzeNetworkEvents ==
    /\ pc = "grouping"
    /\ Analyzed(exceptionLogs)
    /\ UNCHANGED <<networkStatus, deviceStatus>>
    /\ UNCHANGED <<notificationVars, analyticsVars>>

(* The list with the entries at i and j exchanged. *)
Exchanged(arr, i, j) ==
    [k \in DOMAIN arr |->
        IF k = i THEN arr[j] ELSE IF k = j THEN arr[i] ELSE arr[k]]

(* analyzeNetworkEvents on the same logs in another order *)
AnalyzeReordered ==
    /\ pc = "done"
    /\ \E i, j \in DOMAIN exceptionLogs :
          /\ i < j
          /\ exceptionLogs[i] # exceptionLogs[j]
          /\ exceptionLogs' = Exchanged(exceptionLogs, i, j)
          /\ Analyzed(Exchanged(exceptionLogs, i, j))
    /\ UNCHANGED <<networkStatus, deviceStatus>>
    /\ UNCHANGED <<ignitionLogs, health, anomalies, serverHealth>>
    /\ UNCHANGED notificationVars

NextExtract ==
    \/ ExceptionArrives
    \/ AnalyzeNetworkEvents
    \/ AnalyzeReordered

SpecExtract == Init /\ [][NextExtract]_vars

---------------------------------------------------------------------------
(* Health score and anomalies *)

(* The device has no ignition log and no exception log. *)
HasNoLogs(imei) ==
    /\ OfDevice(ignitionLogs, imei) = <<>>
    /\ OfDevice(exceptionLogs, imei) = <<>>

(* C12 as claimed: the health score of a device without any log is 45. *)
C12_ZeroEventsScore45 ==
    (health # NoHealth /\ HasNoLogs(health.imei)) => health.score = 45

(* C12 as amended: the health score of a device without any log is 49:     *)
(* connectivity 0, battery health 12.0 / 12.6 of 100, error rate 100 and   *)
(* uptime 0, weighted 0.30, 0.25, 0.25 and 0.20 and rounded.               *)
C12_ZeroEventsScore49 ==
    (health # NoHealth /\ HasNoLogs(health.imei)) =>
        /\ health.score = 49
        /\ health.factors.connectivity = 0
        /\ health.factors.batteryHealth = 95
        /\ health.factors.errorRate = 100
        /\ health.factors.uptime = 0

(* A device without logs has been scored while another device has logs. *)
C12_Witness ==
    /\ health # NoHealth
    /\ health.imei = WatchedDevice
    /\ HasNoLogs(WatchedDevice)
    /\ ~HasNoLogs(OtherDevice)

(* The voltage readings of the device, in the order of its ignition logs. *)
ReadingsOf(imei) ==
    Voltages(SelectSeq(OfDevice(ignitionLogs, imei), HasVoltage))

Emitted(imei, type) ==
    \E k \in DOMAIN anomalies.list :
        /\ anomalies.list[k].imei = imei
        /\ anomalies.list[k].type = type

DecliningReadings == <<124, 122, 120, 118, 116>>

(* C13 as claimed: for a device whose only readings are 12.4, 12.2, 12.0,  *)
(* 11.8, 11.6 a voltage_drop anomaly of severity high is returned.         *)
C13_DecliningReadingsEmitHigh ==
    (anomalies.returned /\ ReadingsOf(WatchedDevice) = DecliningReadings) =>
        \E k \in DOMAIN anomalies.list :
            anomalies.list[k] = Anomaly(WatchedDevice, "voltage_drop", "high")

(* C13 as amended: for a device whose only readings are 12.4, 12.2, 12.0,  *)
(* 11.8, 11.6 (mean 12.0 V, not below 11.5 V) no voltage_drop anomaly is   *)
(* returned.                                                               *)
C13_DecliningReadingsEmitNothing ==
    (anomalies.returned /\ ReadingsOf(WatchedDevice) = DecliningReadings) =>
        ~Emitted(WatchedDevice, "voltage_drop")

(* The anomalies of the declining readings have been asked for, next to a  *)
(* device that does have a voltage drop.                                   *)
C13_Witness ==
    /\ anomalies.returned
    /\ ReadingsOf(WatchedDevice) = DecliningReadings
    /\ Emitted(OtherDevice, "voltage_drop")

(* The exceptions of the device whose timestamp, as parseTimestamp reads   *)
(* it, lies within the hour before the call.                               *)
ExceptionsWithinHour(imei) ==
    Cardinality({k \in DOMAIN exceptionLogs :
                    /\ exceptionLogs[k].deviceImei = imei
                    /\ parseTimestamp(exceptionLogs[k].timestamp) < 60})

(* C14: a frequent_restarts anomaly is returned for a device exactly when  *)
(* more than 5 of its exceptions lie within the hour before the call.      *)
C14_FrequentRestartsIffOverFive ==
    anomalies.returned =>
        \A imei \in AnalyticsDevices :
            Emitted(imei, "frequent_restarts") <=> ExceptionsWithinHour(imei) > 5

(* Six exceptions of a device, none within the last hour, have raised no   *)
(* anomaly, while the six recent exceptions of another device have.        *)
C14_Witness ==
    /\ anomalies.returned
    /\ Len(OfDevice(exceptionLogs, WatchedDevice)) = 6
    /\ ExceptionsWithinHour(WatchedDevice) = 0
    /\ ~Emitted(WatchedDevice, "frequent_restarts")
    /\ Emitted(OtherDevice, "frequent_restarts")

---------------------------------------------------------------------------
(* Status queries *)

(* The events of the 30 minutes before the query. *)
InWindow(e, dateNow) == dateNow - e.timestamp < 30 * MS_PER_MINUTE

(* The devices with an outage event in the window that no later recovery   *)
(* event of the device in the window follows.                              *)
CurrentlyAffected(evs, dateNow) ==
    {d \in Devices :
        \E i \in DOMAIN evs :
            /\ evs[i].deviceImei = d
            /\ evs[i].eventType = "outage"
            /\ InWindow(evs[i], dateNow)
            /\ ~\E j \in DOMAIN evs :
                    /\ evs[j].deviceImei = d
                    /\ evs[j].eventType = "recovery"
                    /\ InWindow(evs[j], dateNow)
                    /\ evs[j].timestamp > evs[i].timestamp}

(* C21: the status getCurrentNetworkStatus returns is "outage" when more   *)
(* than 3 distinct devices are currently affected, "degraded" when 1 to 3  *)
(* are and "healthy" when none is, however many outage events one device   *)
(* has.                                                                    *)
C21_StatusCountsDevices ==
    networkStatus # NoStatus =>
        LET n == Cardinality(CurrentlyAffected(events, networkStatus.dateNow))
        IN  networkStatus.status =
                IF n > 3 THEN "outage"
                ELSE IF n >= 1 THEN "degraded"
                ELSE "healthy"

(* C22: the reliability getDeviceRecoveryStatus returns lies within 0 to   *)
(* 100 for every device, the events being sorted by time and none later    *)
(* than the time of the query, also when several outage events of the      *)
(* device precede one recovery event.                                      *)
C22_ReliabilityWithinRange ==
    pc = "done" =>
        \A d \in Devices :
            /\ deviceStatus[d].reliability >= 0
            /\ deviceStatus[d].reliability <= 100

---------------------------------------------------------------------------
(* Uptime factor and server health *)

(* The logs of the device whose timestamp, as parseTimestamp reads it,     *)
(* lies within the 24 hours before the call.                               *)
LogsWithinDay(imei) ==
    Cardinality({k \in DOMAIN ignitionLogs :
                    /\ ignitionLogs[k].deviceImei = imei
                    /\ parseTimestamp(ignitionLogs[k].timestamp) < 24 * 60})
      + Cardinality({k \in DOMAIN exceptionLogs :
                        /\ exceptionLogs[k].deviceImei = imei
                        /\ parseTimestamp(exceptionLogs[k].timestamp) < 24 * 60})

(* C23: the uptime factor of the health score is min(100, 5 x the number   *)
(* of the device's logs of the last 24 hours), logs between 1 and 24 hours *)
(* old included.                                                           *)
C23_UptimeCountsLastDay ==
    health # NoHealth =>
        health.factors.uptime = Min(100, 5 * LogsWithinDay(health.imei))

(* The exceptions that say one of the keywords in main, all ages. *)
SaysInMain(keywords) ==
    {k \in DOMAIN exceptionLogs :
        /\ exceptionLogs[k].main # NoText
        /\ \E kw \in keywords : includes(toLowerCase(exceptionLogs[k].main), kw)}

ServerKeywords ==
    {<<"server", "down">>, <<"server", "unavailable">>, <<"connection", "timeout">>}

Younger(k, minutes) == parseTimestamp(exceptionLogs[k].timestamp) < minutes

(* C24: the server status is "offline" exactly when an exception of the    *)
(* last hour says "server down" in main, otherwise "degraded" exactly when *)
(* more than 5 server-related exceptions are of the last 24 hours,         *)
(* otherwise "online"; the connected devices are between 0 and the total   *)
(* devices, and the uptime between 0 and 100 percent.                      *)
C24_ServerStatusAndRanges ==
    serverHealth # NoServerHealth =>
        LET down == {k \in SaysInMain({<<"server", "down">>}) : Younger(k, 60)}
            related == {k \in SaysInMain(ServerKeywords) : Younger(k, 24 * 60)}
        IN  /\ serverHealth.status =
                  IF down # {} THEN "offline"
                  ELSE IF Cardinality(related) > 5 THEN "degraded"
                  ELSE "online"
            /\ serverHealth.connectedDevices >= 0
            /\ serverHealth.connectedDevices <= serverHealth.totalDevices
            /\ serverHealth.uptime >= 0
            /\ serverHealth.uptime <= 100 * 100

(* The server is degraded by more than 720 server-related exceptions of    *)
(* the last day, among them a "server down" that is older than an hour.    *)
C24_Witness ==
    /\ serverHealth # NoServerHealth
    /\ serverHealth.status = "degraded"
    /\ serverHealth.uptime = 0
    /\ serverHealth.downtimeToday > 24 * 60
    /\ \E k \in SaysInMain({<<"server", "down">>}) : ~Younger(k, 60)

---------------------------------------------------------------------------
(* Event extraction, arrival order, crediting of recoveries *)

OutageKeywords ==
    { <<"server", "down">>, <<"server", "unavailable">>,
      <<"connection", "failed">>, <<"network", "error">> }

RecoveryKeywords ==
    { <<"server", "up">>, <<"connection", "restored">>,
      <<"network", "restored">>, <<"server", "available">>,
      <<"connection", "established">>, <<"back", "online">>,
      <<"connectivity", "restored">> }

TimeoutKeywords == {<<"timeout">>, <<"retry">>, <<"attempting", "reconnection">>}

(* The log says one of the keywords, in main or in details. *)
Says(log, keywords) ==
    \E kw \in keywords :
        \/ includes(toLowerCase(log.main), kw)
        \/ includes(toLowerCase(log.details), kw)

(* First match wins: outage, then recovery, then timeout. *)
TypeByFirstMatch(log) ==
    IF Says(log, OutageKeywords) THEN "outage"
    ELSE IF Says(log, RecoveryKeywords) THEN "recovery"
    ELSE IF Says(log, TimeoutKeywords) THEN "timeout"
    ELSE "none"

(* C25: the events extracted are, per device, timestamp and type, as many  *)
(* as the logs that the first matching keyword set (outage, recovery,      *)
(* timeout), looked for in main and in details alike, gives that type; a   *)
(* log without keyword yields no event.                                    *)
C25_FirstMatchInEitherField ==
    pc = "done" =>
        \A d \in ExtractDevices, ts \in ExtractStamps, type \in EventTypes :
            Cardinality({k \in DOMAIN events :
                            /\ events[k].deviceImei = d
                            /\ events[k].timestamp = ts
                            /\ events[k].eventType = type})
              = Cardinality({k \in DOMAIN exceptionLogs :
                                /\ exceptionLogs[k].deviceImei = d
                                /\ exceptionLogs[k].timestamp = ts
                                /\ TypeByFirstMatch(exceptionLogs[k]) = type})

(* The events are in ascending order of their timestamps. *)
Ascending(evs) ==
    \A k \in 1 .. (Len(evs) - 1) : evs[k].timestamp <= evs[k + 1].timestamp

(* The two incident lists agree in length and, incident by incident, in    *)
(* everything but the order within the affected and recovered devices.     *)
SameIncidents(a, b) ==
    /\ Len(a) = Len(b)
    /\ \A i \in DOMAIN a :
          /\ a[i].startTime = b[i].startTime
          /\ a[i].endTime = b[i].endTime
          /\ a[i].duration = b[i].duration
          /\ a[i].status = b[i].status
          /\ Elems(a[i].affectedDevices) = Elems(b[i].affectedDevices)
          /\ Elems(a[i].recoveredDevices) = Elems(b[i].recoveredDevices)
          /\ a[i].recoveryPattern = b[i].recoveryPattern
          /\ a[i].severity = b[i].severity

(* C26: an analysis of the same logs in another order returns the same     *)
(* events, in ascending order of their timestamps, and the same incidents  *)
(* (count, start and end times, status, affected and recovered devices,    *)
(* pattern and severity).                                                  *)
C26_ArrivalOrderIrrelevant ==
    [][ (pc = "done" /\ pc' = "done") =>
          /\ Elems(events') = Elems(events)
          /\ Len(events') = Len(events)
          /\ Ascending(events')
          /\ SameIncidents(incidents', incidents)
      ]_vars

(* The last outage event of every device is followed by a recovery event   *)
(* of that device with a later timestamp.                                  *)
EveryLastOutageRecovered ==
    \A i \in DOMAIN events :
        ( /\ events[i].eventType = "outage"
          /\ \A j \in DOMAIN events :
                (j > i /\ events[j].deviceImei = events[i].deviceImei)
                    => events[j].eventType # "outage" )
        => \E j \in DOMAIN events :
              /\ events[j].deviceImei = events[i].deviceImei
              /\ events[j].eventType = "recovery"
              /\ events[j].timestamp > events[i].timestamp

(* C27: once the pass has returned, if the last outage event of every      *)
(* device is followed by a later recovery event of that device, no         *)
(* incident is ongoing.                                                    *)
C27_RecoveredDevicesLeaveNoOngoing ==
    (pc = "done" /\ EveryLastOutageRecovered) =>
        \A i \in DOMAIN incidents : incidents[i].status # "ongoing"

---------------------------------------------------------------------------
(* Listeners that unsubscribe, last incident, structure of the incidents *)

(* The step is an acknowledgeNotification that acknowledges an entry. *)
EffectiveAcknowledge ==
    AcknowledgeCalled /\ AcknowledgeApplies(notifications, last'.id)

(* C28: on every addNotification that inserts and every effective          *)
(* acknowledgeNotification, every listener that only reads and was         *)
(* subscribed when the round started is invoked exactly once, also when    *)
(* another listener unsubscribes itself inside its callback.               *)
C28_UnsubscribingListenerHidesNone ==
    [][ ((AddCalled /\ last'.inserted) \/ EffectiveAcknowledge) =>
          \A l \in Listeners :
              ListenerKind(l) = "reads" =>
                  Occurrences(last'.invoked, l) = Occurrences(listeners, l)
      ]_vars

(* C29: getCurrentNetworkStatus, called after an analysis, returns the     *)
(* last incident of that analysis as lastIncident, and an undefined        *)
(* lastIncident only when the analysis returned no incident.               *)
C29_LastIncidentOfAnalysis ==
    (pc = "done" /\ networkStatus # NoStatus) =>
        (networkStatus.lastIncident = Undefined <=> incidents = <<>>)

NoDuplicates(arr) == Cardinality(Elems(arr)) = Len(arr)

(* C30: after every processed event every incident has affected devices,   *)
(* none twice, and no recovered device twice; the incidents are in the     *)
(* order of their start times, consecutive ones more than 5 minutes apart; *)
(* a resolved incident does not end before it starts and has a duration    *)
(* that is not negative.                                                   *)
C30_IncidentListWellFormed ==
    /\ \A i \in DOMAIN incidents :
          /\ incidents[i].affectedDevices # <<>>
          /\ NoDuplicates(incidents[i].affectedDevices)
          /\ NoDuplicates(incidents[i].recoveredDevices)
          /\ Resolved(incidents[i]) =>
                /\ incidents[i].endTime >= incidents[i].startTime
                /\ incidents[i].duration >= 0
    /\ \A i \in 1 .. (Len(incidents) - 1) :
          incidents[i + 1].startTime - incidents[i].startTime > FiveMinutes

(* The pass is under way with two incidents: the first resolved at the     *)
(* instant it started, the second joined by a second device whose outage   *)
(* is on record.                                                           *)
C30_Witness ==
    /\ pc = "grouping"
    /\ Len(incidents) = 2
    /\ Resolved(incidents[1])
    /\ incidents[1].endTime = incidents[1].startTime
    /\ Len(incidents[2].affectedDevices) = 2
    /\ DOMAIN deviceOutages = Elems(incidents[2].affectedDevices)

====
